---- MODULE Spec2Model ----
(***************************************************************************)
(* State-machine model of the RTP/RTCP transport node                      *)
(* (src/projects/modules/rtp_rtcp/rtp_rtcp.cpp) and of its Sender-Report   *)
(* generator (rtcp_info/rtcp_sr_generator.cpp).                            *)
(*                                                                         *)
(* Every public method of RtpRtcp is one action that models the whole      *)
(* call; SpecConc, SpecStat and SpecGen run the calls from several threads *)
(* and split them at their accesses to shared data.  A call made by a      *)
(* single caller is instantaneous with respect to the millisecond clock    *)
(* `now` (std::chrono::system_clock, taken to be non-decreasing); elapsed  *)
(* times stay far below 2^32 ms inside the bounds, so the uint32_t cast of *)
(* GetElapsedTimeMS* is the identity here.  The lsw field of a Sender      *)
(* Report (a 32-bit binary fraction) is not represented.                   *)
(*                                                                         *)
(* ov::Node (lifecycle state, Start, Node::Stop, SendDataToNextNode),      *)
(* RtpReceiveStatistics, the jitter buffers, RtpPacket and RtcpReceiver    *)
(* are not part of the two files modelled; they are modelled from the      *)
(* design document.                                                        *)
(***************************************************************************)
EXTENDS Integers, Sequences, FiniteSets, TLC

VARIABLES
    nodeState,                    \* ov::Node state: Created/Ready/Started/Stopped
    observer,                     \* _observer != nullptr
    rtcp_sr_generators,           \* _rtcp_sr_generators : payload type -> RtcpSRGenerator
    tracks,                       \* _tracks : payload type -> origin bitstream format
    rtp_frame_jitter_buffers,     \* keys of _rtp_frame_jitter_buffers
    rtp_minimal_jitter_buffers,   \* keys of _rtp_minimal_jitter_buffers
    receive_statistics,           \* _receive_statistics : ssrc -> RtpReceiveStatistics
    last_sent_rtp_packet,         \* _last_sent_rtp_packet
    last_sent_rtcp_packet,        \* _last_sent_rtcp_packet
    now,                          \* system_clock::now() in ms
    lastCall,                     \* the last call made: operation, arguments, result, effects
    state_lock,                   \* _state_lock : [shared : set of threads, exclusive : set of threads]
    pc,                           \* per thread: position inside the call it is running
    targ,                         \* per thread: argument of the call it is running
    hist                          \* history: how many Sender Reports were forwarded, the
                                  \* last two of them, per payload type the packets
                                  \* handed to its generator since its last report, and
                                  \* per SSRC the FIRs built (how many, the last number),
                                  \* and what the generator was handed and reported
                                  \* when several threads drive it

vars == << nodeState, observer, rtcp_sr_generators, tracks, rtp_frame_jitter_buffers,
           rtp_minimal_jitter_buffers, receive_statistics, last_sent_rtp_packet,
           last_sent_rtcp_packet, now, lastCall, state_lock, pc, targ, hist >>

\* The node's own data: everything a call on the node may change.
nodeVars == << nodeState, observer, rtcp_sr_generators, tracks, rtp_frame_jitter_buffers,
               rtp_minimal_jitter_buffers, receive_statistics, last_sent_rtp_packet,
               last_sent_rtcp_packet >>

\* The registration tables.
tableVars == << rtcp_sr_generators, tracks, rtp_frame_jitter_buffers,
                rtp_minimal_jitter_buffers >>

threadVars == << state_lock, pc, targ >>

----------------------------------------------------------------------------
\* Bounds of the model.

MaxPackets == 2          \* packets a generator / a statistics entry counts in Spec
MaxFir == 2              \* FIR requests per statistics entry in Spec
MaxSrPackets == 2        \* packets observed between two reports in SpecSR
MaxFirWrap == 258        \* FIR requests per statistics entry in SpecFir
MaxDelaySteps == 30      \* start-up delays tried in SpecE2E, in steps of E2EPacketGapMs

\* The null pointer; every packet is a record with a type field.
NULL == [type |-> "null"]

NodeStates == {"Created", "Ready", "Started", "Stopped"}

PayloadTypes == {96, 97}
Ssrcs == {1000, 2000}

\* cmn::BitstreamFormat values a track may carry; "Unknown" stands for every
\* format the switch statements do not list.
FrameFormats == {"H264_RTP_RFC_6184", "VP8_RTP_RFC_7741", "AAC_MPEG4_GENERIC"}
MinimalFormats == {"OPUS_RTP_RFC_7587"}
BitstreamFormats == FrameFormats \cup MinimalFormats \cup {"Unknown"}

\* Functions used as std::map: the domain is the set of keys present.
Put(m, k, v) == [x \in DOMAIN m \cup {k} |-> IF x = k THEN v ELSE m[x]]
EmptyMap == << >>

----------------------------------------------------------------------------
\* RtcpSRGenerator (rtcp_sr_generator.cpp)

\* RtcpSRGenerator::RtcpSRGenerator
NewRtcpSRGenerator(ssrc, codec_rate, t) ==
    [ ssrc |-> ssrc, codec_rate |-> codec_rate,
      created_time |-> t, last_generated_time |-> t,
      packet_count |-> 0, octec_count |-> 0,
      rtcp_generated_count |-> 0, rtcp_packet |-> NULL ]

GetElapsedTimeMSFromCreated(g, t) == t - g.created_time
GetElapsedTimeMSFromRtcpSRGenerated(g, t) == t - g.last_generated_time

\* The two periods and the length of the fast phase, in ms.
FastPeriodMs == 500
SlowPeriodMs == 4999
FastPhaseMs == 10000

\* A mis-typed interval test: >= instead of >.
IsRtcpIntervalElapsed_ge(from_created, from_generated) ==
    \/ (from_created < FastPhaseMs /\ from_generated >= FastPeriodMs)
    \/ from_generated >= SlowPeriodMs

\* The condition of the if statement of AddRTPPacketAndGenerateRtcpSR.
IsRtcpIntervalElapsed(from_created, from_generated) ==
    \/ (from_created < FastPhaseMs /\ from_generated > FastPeriodMs)
    \/ from_generated > SlowPeriodMs

\* The Sender Report built from the counters, before they are reset.
BuildSenderReport(g, rtp_packet) ==
    [ type |-> "SR", ssrc |-> g.ssrc,
      msw |-> rtp_packet.timestamp \div g.codec_rate,
      timestamp |-> rtp_packet.timestamp,
      packet_count |-> g.packet_count,
      octet_count |-> g.octec_count ]

\* A generator that forgets to reset the octet counter.
AddRTPPacketAndGenerateRtcpSR_noreset(g, rtp_packet, t) ==
    LET c == [g EXCEPT !.packet_count = @ + 1,
                       !.octec_count = @ + rtp_packet.payload_size]
    IN  IF IsRtcpIntervalElapsed(GetElapsedTimeMSFromCreated(c, t),
                                 GetElapsedTimeMSFromRtcpSRGenerated(c, t))
        THEN [c EXCEPT !.rtcp_packet = BuildSenderReport(c, rtp_packet),
                       !.packet_count = 0,
                       !.last_generated_time = t,
                       !.rtcp_generated_count = @ + 1]
        ELSE c

\* RtcpSRGenerator::AddRTPPacketAndGenerateRtcpSR at time t.
AddRTPPacketAndGenerateRtcpSR(g, rtp_packet, t) ==
    LET c == [g EXCEPT !.packet_count = @ + 1,
                       !.octec_count = @ + rtp_packet.payload_size]
    IN  IF IsRtcpIntervalElapsed(GetElapsedTimeMSFromCreated(c, t),
                                 GetElapsedTimeMSFromRtcpSRGenerated(c, t))
        THEN [c EXCEPT !.rtcp_packet = BuildSenderReport(c, rtp_packet),
                       !.packet_count = 0,
                       !.octec_count = 0,
                       !.last_generated_time = t,
                       !.rtcp_generated_count = @ + 1]
        ELSE c

IsAvailableRtcpSRPacket(g) == g.rtcp_packet # NULL

\* RtcpSRGenerator::PopRtcpSRPacket: the generator left behind (the packet
\* returned is g.rtcp_packet, moved out).
PopRtcpSRPacket(g) == [g EXCEPT !.rtcp_packet = NULL]

----------------------------------------------------------------------------
\* Collaborators outside the two files: ov::Node, RtpPacket, RtpReceiveStatistics.

\* ov::Node::Start: Ready -> Started, refused in every other state.
NodeStart(s) == IF s = "Ready" THEN "Started" ELSE s

\* ov::Node::Stop: any state -> Stopped.
NodeStop(s) == "Stopped"

\* RtpPacket::PayloadType of a parsed datagram: the low 7 bits of byte 1.
PayloadTypeOf(data) == data.second_byte % 128

\* RtpReceiveStatistics: constructor and the mutators the node calls.
NewRtpReceiveStatistics(payload_type, ssrc) ==
    [ payload_type |-> payload_type, ssrc |-> ssrc,
      rtp_packets |-> 0, sender_reports |-> 0, fir_requests |-> 0 ]
AddReceivedRtpPacket(stat) == [stat EXCEPT !.rtp_packets = @ + 1]
AddReceivedRtcpSenderReport(stat) == [stat EXCEPT !.sender_reports = @ + 1]
OnFirRequested(stat) == [stat EXCEPT !.fir_requests = @ + 1]
GetNumberOfFirRequests(stat) == stat.fir_requests

\* RTCP_HEADER_SIZE (rtcp_packet.h): the fixed RTCP header, 4 bytes.
RTCP_HEADER_SIZE == 4

\* One SendDataToNextNode call: what was sent to which node and the result.
Sent(node, packet, ok) == [node |-> node, packet |-> packet, ok |-> ok]

\* The record kept of a call: the operation, its argument, the lifecycle state
\* it was made in, its result, what it sent downward, the observer callbacks
\* it made, the jitter buffer it inserted into and the handler it dispatched to.
Call(op, arg, ret, down, up, jb) ==
    [op |-> op, arg |-> arg, from |-> nodeState, ret |-> ret, down |-> down,
     up |-> up, jb |-> jb, handler |-> "none"]
NoTally == [packets |-> 0, octets |-> 0]
NoFir == [count |-> 0, last |-> -1]
\* Kept by the stepwise calls of SpecGen: packets and octets handed to the
\* generator, reports built, and the packets and octets those reports count.
NoGen == [observed |-> 0, octets |-> 0, built |-> 0, reported |-> 0, reported_octets |-> 0]
NoHist ==
    [count |-> 0, srs |-> << >>, tally |-> [pt \in PayloadTypes |-> NoTally],
     fir |-> [ssrc \in Ssrcs |-> NoFir], gen |-> NoGen]
\* The last two entries of a log.
LastTwo(log) == IF Len(log) <= 2 THEN log ELSE SubSeq(log, Len(log) - 1, Len(log))

NoCall ==
    [op |-> "none", arg |-> [none |-> TRUE], from |-> "Created", ret |-> TRUE,
     down |-> << >>, up |-> << >>, jb |-> "none", handler |-> "none"]

----------------------------------------------------------------------------
\* RtpRtcp (rtp_rtcp.cpp): lifecycle and registration

Init ==
    /\ nodeState = "Created"
    /\ observer = TRUE
    /\ rtcp_sr_generators = EmptyMap
    /\ tracks = EmptyMap
    /\ rtp_frame_jitter_buffers = {}
    /\ rtp_minimal_jitter_buffers = {}
    /\ receive_statistics = EmptyMap
    /\ last_sent_rtp_packet = NULL
    /\ last_sent_rtcp_packet = NULL
    /\ now = 0
    /\ lastCall = NoCall
    /\ state_lock = [shared |-> {}, exclusive |-> {}]
    /\ pc = << >>
    /\ targ = << >>
    /\ hist = NoHist

\* The node becomes Ready once it is wired into its node chain.
NodeReady ==
    /\ nodeState = "Created"
    /\ nodeState' = "Ready"
    /\ lastCall' = Call("NodeReady", [none |-> TRUE], TRUE, << >>, << >>, "none")
    /\ UNCHANGED << observer, tableVars, receive_statistics,
                    last_sent_rtp_packet, last_sent_rtcp_packet, hist >>

\* ov::Node::Start (RtpRtcp does not override it).
Start ==
    /\ nodeState' = NodeStart(nodeState)
    /\ lastCall' = Call("Start", [none |-> TRUE], nodeState = "Ready", << >>, << >>, "none")
    /\ UNCHANGED << observer, tableVars, receive_statistics,
                    last_sent_rtp_packet, last_sent_rtcp_packet, hist >>

\* A state check that only refuses registration on a started node.
CanRegister_notStarted(s) == s # "Started"

\* The state check of the two registration calls: GetNodeState() == Ready.
CanRegister(s) == s = "Ready"

\* RtpRtcp::AddRtcpSRGenerator
AddRtcpSRGenerator(payload_type, ssrc, codec_rate) ==
    /\ IF ~CanRegister(nodeState)
       THEN /\ lastCall' = Call("AddRtcpSRGenerator", [payload_type |-> payload_type],
                                FALSE, << >>, << >>, "none")
            /\ UNCHANGED << rtcp_sr_generators, hist >>
       ELSE /\ rtcp_sr_generators' =
                   Put(rtcp_sr_generators, payload_type,
                       NewRtcpSRGenerator(ssrc, codec_rate, now))
            /\ hist' = [hist EXCEPT !.tally[payload_type] = NoTally]
            /\ lastCall' = Call("AddRtcpSRGenerator", [payload_type |-> payload_type],
                                TRUE, << >>, << >>, "none")
    /\ UNCHANGED << nodeState, observer, tracks, rtp_frame_jitter_buffers,
                    rtp_minimal_jitter_buffers, receive_statistics,
                    last_sent_rtp_packet, last_sent_rtcp_packet >>

\* RtpRtcp::AddRtpReceiver; track is the track's origin bitstream format.
AddRtpReceiver(payload_type, track) ==
    /\ IF ~CanRegister(nodeState)
       THEN /\ lastCall' = Call("AddRtpReceiver",
                                [payload_type |-> payload_type, track |-> track],
                                FALSE, << >>, << >>, "none")
            /\ UNCHANGED << tracks, rtp_frame_jitter_buffers, rtp_minimal_jitter_buffers >>
       ELSE /\ tracks' = Put(tracks, payload_type, track)
            /\ rtp_frame_jitter_buffers' =
                   IF track \in FrameFormats
                   THEN rtp_frame_jitter_buffers \cup {payload_type}
                   ELSE rtp_frame_jitter_buffers
            /\ rtp_minimal_jitter_buffers' =
                   IF track \in MinimalFormats
                   THEN rtp_minimal_jitter_buffers \cup {payload_type}
                   ELSE rtp_minimal_jitter_buffers
            /\ lastCall' = Call("AddRtpReceiver",
                                [payload_type |-> payload_type, track |-> track],
                                track \in FrameFormats \cup MinimalFormats,
                                << >>, << >>, "none")
    /\ UNCHANGED << nodeState, observer, rtcp_sr_generators, receive_statistics,
                    last_sent_rtp_packet, last_sent_rtcp_packet, hist >>

\* A Stop that keeps the observer reference.
Stop_keepsObserver ==
    /\ observer' = observer
    /\ nodeState' = NodeStop(nodeState)
    /\ lastCall' = Call("Stop", [none |-> TRUE], TRUE, << >>, << >>, "none")
    /\ UNCHANGED << tableVars, receive_statistics,
                    last_sent_rtp_packet, last_sent_rtcp_packet, hist >>

\* RtpRtcp::Stop
Stop ==
    /\ observer' = FALSE
    /\ nodeState' = NodeStop(nodeState)
    /\ lastCall' = Call("Stop", [none |-> TRUE], TRUE, << >>, << >>, "none")
    /\ UNCHANGED << tableVars, receive_statistics,
                    last_sent_rtp_packet, last_sent_rtcp_packet, hist >>

----------------------------------------------------------------------------
\* RtpRtcp (rtp_rtcp.cpp): outbound path

\* A hot-path check that only refuses after Stop.
IsStarted_notStopped(s) == s # "Stopped"

\* The state check of the hot-path calls: GetNodeState() == Started.
IsStarted(s) == s = "Started"

\* A SendRtpPacket whose result is false when forwarding the Sender Report
\* failed.
SendRtpPacket_srResult(rtp_packet, sr_ok, rtp_ok) ==
    LET pt == rtp_packet.payload_type
        arg == [rtp_packet |-> rtp_packet]
    IN
    IF ~IsStarted(nodeState)
    THEN /\ lastCall' = Call("SendRtpPacket", arg, FALSE, << >>, << >>, "none")
         /\ UNCHANGED << nodeVars, hist >>
    ELSE
      LET has == pt \in DOMAIN rtcp_sr_generators
          g1 == AddRTPPacketAndGenerateRtcpSR(rtcp_sr_generators[pt], rtp_packet, now)
          avail == has /\ IsAvailableRtcpSRPacket(g1)
          sr == g1.rtcp_packet
          g2 == IF avail THEN PopRtcpSRPacket(g1) ELSE g1
      IN
      /\ rtcp_sr_generators' =
             IF has THEN Put(rtcp_sr_generators, pt, g2) ELSE rtcp_sr_generators
      /\ last_sent_rtcp_packet' = IF avail THEN sr ELSE last_sent_rtcp_packet
      /\ last_sent_rtp_packet' = rtp_packet
      /\ lastCall' = Call("SendRtpPacket", arg, rtp_ok /\ (avail => sr_ok),
                          (IF avail THEN << Sent("Rtcp", sr, sr_ok) >> ELSE << >>)
                              \o << Sent("Rtp", rtp_packet, rtp_ok) >>,
                          << >>, "none")
      /\ hist' =
             IF ~has THEN hist
             ELSE LET seen == [packets |-> hist.tally[pt].packets + 1,
                               octets |-> hist.tally[pt].octets + rtp_packet.payload_size]
                  IN IF avail
                     THEN [hist EXCEPT
                             !.count = @ + 1,
                             !.srs = LastTwo(Append(@, [at |-> now, pt |-> pt,
                                                        sr |-> sr, seen |-> seen])),
                             !.tally[pt] = NoTally]
                     ELSE [hist EXCEPT !.tally[pt] = seen]
      /\ UNCHANGED << nodeState, observer, tracks, rtp_frame_jitter_buffers,
                      rtp_minimal_jitter_buffers, receive_statistics >>

\* RtpRtcp::SendRtpPacket; sr_ok and rtp_ok are the results of the two
\* SendDataToNextNode calls (sr_ok is used only when a report is sent).
SendRtpPacket(rtp_packet, sr_ok, rtp_ok) ==
    LET pt == rtp_packet.payload_type
        arg == [rtp_packet |-> rtp_packet]
    IN
    IF ~IsStarted(nodeState)
    THEN /\ lastCall' = Call("SendRtpPacket", arg, FALSE, << >>, << >>, "none")
         /\ UNCHANGED << nodeVars, hist >>
    ELSE
      LET has == pt \in DOMAIN rtcp_sr_generators
          g1 == AddRTPPacketAndGenerateRtcpSR(rtcp_sr_generators[pt], rtp_packet, now)
          avail == has /\ IsAvailableRtcpSRPacket(g1)
          sr == g1.rtcp_packet
          g2 == IF avail THEN PopRtcpSRPacket(g1) ELSE g1
      IN
      /\ rtcp_sr_generators' =
             IF has THEN Put(rtcp_sr_generators, pt, g2) ELSE rtcp_sr_generators
      /\ last_sent_rtcp_packet' = IF avail THEN sr ELSE last_sent_rtcp_packet
      /\ last_sent_rtp_packet' = rtp_packet
      /\ lastCall' = Call("SendRtpPacket", arg, rtp_ok,
                          (IF avail THEN << Sent("Rtcp", sr, sr_ok) >> ELSE << >>)
                              \o << Sent("Rtp", rtp_packet, rtp_ok) >>,
                          << >>, "none")
      /\ hist' =
             IF ~has THEN hist
             ELSE LET seen == [packets |-> hist.tally[pt].packets + 1,
                               octets |-> hist.tally[pt].octets + rtp_packet.payload_size]
                  IN IF avail
                     THEN [hist EXCEPT
                             !.count = @ + 1,
                             !.srs = LastTwo(Append(@, [at |-> now, pt |-> pt,
                                                        sr |-> sr, seen |-> seen])),
                             !.tally[pt] = NoTally]
                     ELSE [hist EXCEPT !.tally[pt] = seen]
      /\ UNCHANGED << nodeState, observer, tracks, rtp_frame_jitter_buffers,
                      rtp_minimal_jitter_buffers, receive_statistics >>

\* A sequence number taken after the counter was advanced.
FirSeqNumber_off(n) == (n + 1) % 256

\* The sequence number of a FIR: static_cast<uint8_t>(n % 256).
FirSeqNumber(n) == n % 256

\* RtpRtcp::SendFir; send_ok is the result of SendDataToNextNode.
SendFir(media_ssrc, send_ok) ==
    LET arg == [media_ssrc |-> media_ssrc] IN
    IF media_ssrc \notin DOMAIN receive_statistics
    THEN /\ lastCall' = Call("SendFir", arg, FALSE, << >>, << >>, "none")
         /\ UNCHANGED << nodeVars, hist >>
    ELSE
      LET stat == receive_statistics[media_ssrc]
          rtcp_packet == [ type |-> "FIR", media_ssrc |-> media_ssrc,
                           seq |-> FirSeqNumber(GetNumberOfFirRequests(stat)) ]
      IN
      /\ receive_statistics' = Put(receive_statistics, media_ssrc, OnFirRequested(stat))
      /\ last_sent_rtcp_packet' = rtcp_packet
      /\ lastCall' = Call("SendFir", arg, send_ok,
                          << Sent("Rtcp", rtcp_packet, send_ok) >>, << >>, "none")
      /\ hist' = [hist EXCEPT !.fir[media_ssrc] =
                                 [count |-> @.count + 1, last |-> rtcp_packet.seq]]
      /\ UNCHANGED << nodeState, observer, tableVars, last_sent_rtp_packet >>

----------------------------------------------------------------------------
\* RtpRtcp (rtp_rtcp.cpp): inbound path
\*
\* A datagram is [length, first_byte, second_byte, ssrc, parse_ok, infos]:
\* its size, its first two bytes, the SSRC an RTP parse yields, and for RTCP
\* whether RtcpReceiver::ParseCompoundPacket succeeds and the messages it
\* yields, each [type, ssrc].  The collaborators' answers during the call are
\* e = [rr_due, build_ok, send_ok, available]: HasElapsedSinceLastReportBlock,
\* RtcpPacket::Build, SendDataToNextNode and the jitter buffer's pop.

\* A band test that is off by one at the upper end.
IsRtpOrRtcp_wide(first_byte) == first_byte >= 128 /\ first_byte <= 192

\* RFC 7983: the first byte of an RTP/RTCP datagram lies in [128..191].
IsRtpOrRtcp(first_byte) == first_byte >= 128 /\ first_byte <= 191

\* RFC 5761: the second byte of an RTCP packet lies in [192..223].
IsRtcp(payload_type) == payload_type >= 192 /\ payload_type <= 223

\* jitter_buffer_type of RtpRtcp::OnRtpReceived.
JitterBufferType(track) ==
    IF track \in FrameFormats THEN 1
    ELSE IF track \in MinimalFormats THEN 2
    ELSE 0

\* What a handler did: result, statistics table, last-sent RTCP slot, sends
\* downward, observer callbacks, jitter buffer the packet was inserted into.
Outcome(ret, stats, rtcp, down, up, jb) ==
    [ret |-> ret, stats |-> stats, rtcp |-> rtcp, down |-> down, up |-> up, jb |-> jb]

\* RtpRtcp::OnRtpReceived
OnRtpReceived(data, e) ==
    LET pt == PayloadTypeOf(data)
        ssrc == data.ssrc
    IN
    IF pt \notin DOMAIN tracks
    THEN Outcome(FALSE, receive_statistics, last_sent_rtcp_packet, << >>, << >>, "none")
    ELSE
      LET track == tracks[pt]
          stat0 == IF ssrc \in DOMAIN receive_statistics
                   THEN receive_statistics[ssrc]
                   ELSE NewRtpReceiveStatistics(pt, ssrc)
          stats == Put(receive_statistics, ssrc, AddReceivedRtpPacket(stat0))
          report == [type |-> "RR", payload_type |-> pt, media_ssrc |-> ssrc]
          sendRR == e.rr_due /\ e.build_ok
          rtcp == IF sendRR THEN report ELSE last_sent_rtcp_packet
          down == IF sendRR THEN << Sent("Rtcp", report, e.send_ok) >> ELSE << >>
          frame == [cb |-> "OnRtpFrameReceived", payload_type |-> pt, ssrc |-> ssrc,
                    live |-> observer]
          jbt == JitterBufferType(track)
      IN
      IF jbt = 1
      THEN IF pt \notin rtp_frame_jitter_buffers
           THEN Outcome(FALSE, stats, rtcp, down, << >>, "none")
           ELSE Outcome(TRUE, stats, rtcp, down,
                        IF e.available /\ observer THEN << frame >> ELSE << >>, "frame")
      ELSE IF jbt = 2
      THEN IF pt \notin rtp_minimal_jitter_buffers
           THEN Outcome(FALSE, stats, rtcp, down, << >>, "none")
           ELSE Outcome(TRUE, stats, rtcp, down,
                        IF e.available THEN << frame >> ELSE << >>, "minimal")
      ELSE Outcome(TRUE, stats, rtcp, down, << >>, "none")

\* A loop that creates the statistics entry of a Sender Report's sender when
\* there is none.
RECURSIVE DrainRtcpInfo_creates(_, _, _)
DrainRtcpInfo_creates(infos, stats, up) ==
    IF infos = << >>
    THEN [stats |-> stats, up |-> up]
    ELSE
      LET info == Head(infos)
          stat0 == IF info.ssrc \in DOMAIN stats THEN stats[info.ssrc]
                   ELSE NewRtpReceiveStatistics(0, info.ssrc)
          stats1 == IF info.type = "SR"
                    THEN Put(stats, info.ssrc, AddReceivedRtcpSenderReport(stat0))
                    ELSE stats
          up1 == IF observer
                 THEN Append(up, [cb |-> "OnRtcpReceived", info |-> info, live |-> observer])
                 ELSE up
      IN DrainRtcpInfo_creates(Tail(infos), stats1, up1)

\* The while loop of RtpRtcp::OnRtcpReceived over the parsed messages.
RECURSIVE DrainRtcpInfo(_, _, _)
DrainRtcpInfo(infos, stats, up) ==
    IF infos = << >>
    THEN [stats |-> stats, up |-> up]
    ELSE
      LET info == Head(infos)
          stats1 == IF info.type = "SR" /\ info.ssrc \in DOMAIN stats
                    THEN Put(stats, info.ssrc, AddReceivedRtcpSenderReport(stats[info.ssrc]))
                    ELSE stats
          up1 == IF observer
                 THEN Append(up, [cb |-> "OnRtcpReceived", info |-> info, live |-> observer])
                 ELSE up
      IN DrainRtcpInfo(Tail(infos), stats1, up1)

\* RtpRtcp::OnRtcpReceived
OnRtcpReceived(data) ==
    IF ~data.parse_ok
    THEN Outcome(FALSE, receive_statistics, last_sent_rtcp_packet, << >>, << >>, "none")
    ELSE
      LET d == DrainRtcpInfo(data.infos, receive_statistics, << >>)
      IN Outcome(TRUE, d.stats, last_sent_rtcp_packet, << >>, d.up, "none")

\* The handler a datagram that passed the state check is given to.
Dispatch(data) ==
    IF data.length < RTCP_HEADER_SIZE THEN "reject"
    ELSE IF IsRtpOrRtcp(data.first_byte)
         THEN IF IsRtcp(data.second_byte) THEN "rtcp" ELSE "rtp"
         ELSE "reject"

\* RtpRtcp::OnDataReceivedFromNextNode
OnDataReceivedFromNextNode(data, e) ==
    LET arg == [data |-> data]
        to == Dispatch(data)
    IN
    IF ~IsStarted(nodeState) \/ to = "reject"
    THEN /\ lastCall' = [Call("OnDataReceivedFromNextNode", arg, FALSE, << >>, << >>, "none")
                             EXCEPT !.handler = IF IsStarted(nodeState) THEN to ELSE "none"]
         /\ UNCHANGED << nodeVars, hist >>
    ELSE
      LET o == IF to = "rtcp" THEN OnRtcpReceived(data) ELSE OnRtpReceived(data, e)
      IN
      /\ receive_statistics' = o.stats
      /\ last_sent_rtcp_packet' = o.rtcp
      /\ lastCall' = [Call("OnDataReceivedFromNextNode", arg, o.ret, o.down, o.up, o.jb)
                         EXCEPT !.handler = to]
      /\ UNCHANGED << nodeState, observer, tableVars, last_sent_rtp_packet, hist >>

----------------------------------------------------------------------------
\* The clock

\* system_clock advances by d ms; no call is running.
Tick(d) ==
    /\ now' = now + d
    /\ UNCHANGED << nodeVars, lastCall, threadVars, hist >>

----------------------------------------------------------------------------
\* Inputs of the calls.

SsrcOf(payload_type) == IF payload_type = 96 THEN 1000 ELSE 2000
CodecRate == 90000
RtpPacket(payload_type, size, timestamp) ==
    [ type |-> "RTP", payload_type |-> payload_type, ssrc |-> SsrcOf(payload_type),
      payload_size |-> size, timestamp |-> timestamp ]
Datagram(length, b0, b1, ssrc, parse_ok, infos) ==
    [ length |-> length, first_byte |-> b0, second_byte |-> b1, ssrc |-> ssrc,
      parse_ok |-> parse_ok, infos |-> infos ]
Env(rr_due, build_ok, send_ok, available) ==
    [ rr_due |-> rr_due, build_ok |-> build_ok, send_ok |-> send_ok,
      available |-> available ]
NoEnv == Env(FALSE, FALSE, FALSE, FALSE)
Info(type, ssrc) == [type |-> type, ssrc |-> ssrc]

----------------------------------------------------------------------------
\* Spec: the node driven by one caller, every call run to completion.  The
\* clock stands still, so no Sender Report falls due (SpecSR and SpecE2E
\* cover the timing).

TrackFormats == {"H264_RTP_RFC_6184", "OPUS_RTP_RFC_7587", "Unknown"}
RegPayloadTypes == {96}
RtpDatagrams == { Datagram(12, 128, b1, 1000, TRUE, << >>) : b1 \in {96, 97} }
RtcpDatagrams ==
    { Datagram(8, 191, 200, 0, FALSE, << >>),
      Datagram(8, 191, 200, 0, TRUE, << Info("SR", 1000) >>),
      Datagram(8, 191, 200, 0, TRUE, << Info("RR", 1000), Info("SR", 2000) >>) }
BadDatagrams ==
    { Datagram(3, 128, 96, 1000, TRUE, << >>),
      Datagram(12, 127, 96, 1000, TRUE, << >>),
      Datagram(12, 192, 200, 0, TRUE, << >>) }
RtpEnvs ==
    { Env(FALSE, FALSE, FALSE, a) : a \in BOOLEAN } \cup
    { Env(TRUE, b, s, TRUE) : b, s \in BOOLEAN }

\* The counters of the statistics entries stay within MaxPackets.
WithinPackets ==
    \A s \in DOMAIN receive_statistics :
        /\ receive_statistics[s].rtp_packets < MaxPackets
        /\ receive_statistics[s].sender_reports < MaxPackets

Caller == UNCHANGED << now, threadVars >>

Next ==
    \/ NodeReady /\ Caller
    \/ Start /\ Caller
    \/ Stop /\ Caller
    \/ \E pt \in RegPayloadTypes : AddRtcpSRGenerator(pt, SsrcOf(pt), CodecRate) /\ Caller
    \/ \E pt \in RegPayloadTypes, f \in TrackFormats : AddRtpReceiver(pt, f) /\ Caller
    \/ \E pt \in RegPayloadTypes, rtp_ok \in BOOLEAN :
          /\ pt \in DOMAIN rtcp_sr_generators =>
                 rtcp_sr_generators[pt].packet_count < MaxPackets
          /\ SendRtpPacket(RtpPacket(pt, 100, 0), TRUE, rtp_ok)
          /\ Caller
    \/ \E ssrc \in Ssrcs, ok \in BOOLEAN :
          /\ ssrc \in DOMAIN receive_statistics =>
                 receive_statistics[ssrc].fir_requests < MaxFir
          /\ SendFir(ssrc, ok)
          /\ Caller
    \/ \E data \in RtpDatagrams, e \in RtpEnvs :
          WithinPackets /\ OnDataReceivedFromNextNode(data, e) /\ Caller
    \/ \E data \in RtcpDatagrams \cup BadDatagrams :
          WithinPackets /\ OnDataReceivedFromNextNode(data, NoEnv) /\ Caller

Spec == Init /\ [][Next]_vars

----------------------------------------------------------------------------
\* Claims checked under Spec.

KeysOf(m) == DOMAIN m
Registrations == {"AddRtcpSRGenerator", "AddRtpReceiver"}
HotPath == {"SendRtpPacket", "OnDataReceivedFromNextNode"}

\* C1: a SendRtpPacket or OnDataReceivedFromNextNode call made while the node
\* is not Started returns failure, forwards nothing downward, calls no
\* observer, inserts into no jitter buffer and leaves every field of the node
\* (SR generators, statistics, last-sent slots, state, observer) unchanged.
C1_RefusedUnlessStarted ==
    [][ (lastCall'.op \in HotPath /\ nodeState # "Started") =>
            /\ lastCall'.ret = FALSE
            /\ lastCall'.down = << >>
            /\ lastCall'.up = << >>
            /\ lastCall'.jb = "none"
            /\ UNCHANGED nodeVars ]_vars

\* C1 witness: an inbound datagram was refused after Stop on a node that
\* holds an SR generator and a statistics entry.
C1_Witness ==
    /\ lastCall.op = "OnDataReceivedFromNextNode"
    /\ lastCall.from = "Stopped"
    /\ lastCall.ret = FALSE
    /\ 96 \in DOMAIN rtcp_sr_generators
    /\ 1000 \in DOMAIN receive_statistics

\* C2 (as claimed): a SendFir call made while the node is not Started, for an
\* SSRC that has a statistics entry, returns failure, forwards no FIR, does
\* not advance the entry's FIR counter and leaves the last-sent RTCP slot.
C2_FirRefusedUnlessStarted ==
    [][ ( /\ lastCall'.op = "SendFir"
          /\ nodeState # "Started"
          /\ lastCall'.arg.media_ssrc \in DOMAIN receive_statistics ) =>
            /\ lastCall'.ret = FALSE
            /\ lastCall'.down = << >>
            /\ UNCHANGED << receive_statistics, last_sent_rtcp_packet >> ]_vars

C10_StopIsFinal ==
    [][ /\ lastCall'.op = "Stop" =>
              /\ lastCall'.ret = TRUE
              /\ nodeState' = "Stopped"
              /\ observer' = FALSE
              /\ UNCHANGED << tableVars, receive_statistics,
                              last_sent_rtp_packet, last_sent_rtcp_packet >>
              /\ nodeState = "Stopped" => UNCHANGED nodeVars
        /\ nodeState = "Stopped" => nodeState' = "Stopped" /\ observer' = FALSE ]_vars

\* C10 witness: Stop was called on a node that was already Stopped.
C10_Witness ==
    /\ lastCall.op = "Stop"
    /\ lastCall.from = "Stopped"
    /\ nodeState = "Stopped"
    /\ observer = FALSE

----------------------------------------------------------------------------
\* SpecSR: one SR generator, created at SrCreatedAt, on a started node; the
\* clock jumps forward between instants that lie on both sides of every
\* threshold of the emission rule, and RTP packets are sent in between.

SrCreatedAt == 1000
SrInstants ==
    { SrCreatedAt + d : d \in {500, 501, 1001, 1002, 5000, 5001, 9999, 10000, 10001,
                               15000, 15001} }
SrSizes == {100, 200}
TimestampAt(t) == (t - SrCreatedAt) * (CodecRate \div 1000)

InitSR ==
    /\ nodeState = "Started"
    /\ observer = TRUE
    /\ rtcp_sr_generators =
           Put(EmptyMap, 96, NewRtcpSRGenerator(SsrcOf(96), CodecRate, SrCreatedAt))
    /\ tracks = EmptyMap
    /\ rtp_frame_jitter_buffers = {}
    /\ rtp_minimal_jitter_buffers = {}
    /\ receive_statistics = EmptyMap
    /\ last_sent_rtp_packet = NULL
    /\ last_sent_rtcp_packet = NULL
    /\ now = SrCreatedAt
    /\ lastCall = [NoCall EXCEPT !.from = "Started"]
    /\ state_lock = [shared |-> {}, exclusive |-> {}]
    /\ pc = << >>
    /\ targ = << >>
    /\ hist = NoHist

NextSR ==
    \/ \E t \in SrInstants : t > now /\ Tick(t - now)
    \/ \E size \in SrSizes, sr_ok \in BOOLEAN :
          /\ rtcp_sr_generators[96].packet_count < MaxSrPackets
          /\ SendRtpPacket(RtpPacket(96, size, TimestampAt(now)), sr_ok, TRUE)
          /\ Caller

SpecSR == InitSR /\ [][NextSR]_vars

----------------------------------------------------------------------------
\* Claims checked under SpecSR.

\* A step that is a call of op (the clock stands still during a call).
Called(op) == now' = now /\ lastCall'.op = op

\* The payload size of the packet of the call just made.
SentSize == lastCall'.arg.rtp_packet.payload_size

\* Time of the last report forwarded, or of the generator's creation.
LastReportAt ==
    IF hist.srs = << >> THEN rtcp_sr_generators[96].created_time
    ELSE hist.srs[Len(hist.srs)].at

\* No SR earlier than 500 ms after creation; the last two SRs at least 500 ms
\* apart, and at least 4999 ms apart when both were emitted after T + 10000.
SrSpacing ==
    LET T == rtcp_sr_generators[96].created_time
        n == Len(hist.srs)
    IN /\ \A i \in 1..n : hist.srs[i].at - T >= 500
       /\ n = 2 =>
            /\ hist.srs[2].at - hist.srs[1].at >= 500
            /\ (hist.srs[1].at > T + 10000 /\ hist.srs[2].at > T + 10000) =>
                   hist.srs[2].at - hist.srs[1].at >= 4999

C6_CountersPerReport ==
    [][ Called("SendRtpPacket") =>
          LET g == rtcp_sr_generators[96]
              h == rtcp_sr_generators'[96]
              sr == lastCall'.down[1].packet
          IN IF hist'.count # hist.count
             THEN /\ sr.type = "SR"
                  /\ sr.packet_count = hist.tally[96].packets + 1
                  /\ sr.octet_count = hist.tally[96].octets + SentSize
                  /\ h.packet_count = 0
                  /\ h.octec_count = 0
                  /\ h.rtcp_generated_count = g.rtcp_generated_count + 1
                  /\ hist'.count = hist.count + 1
             ELSE h = [g EXCEPT !.packet_count = @ + 1,
                                !.octec_count = @ + SentSize] ]_vars

\* C6 witness: a second SR was just emitted that reports 2 packets of 100
\* and 200 bytes, and the generator's counters are back at 0.
C6_Witness ==
    /\ hist.count = 2
    /\ lastCall.op = "SendRtpPacket"
    /\ Len(lastCall.down) = 2
    /\ lastCall.down[1].packet.packet_count = 2
    /\ lastCall.down[1].packet.octet_count = 300
    /\ rtcp_sr_generators[96].packet_count = 0
    /\ rtcp_sr_generators[96].octec_count = 0

----------------------------------------------------------------------------
\* SpecClassify: a started node with a frame track for payload type 96 is
\* handed one datagram whose first two bytes are any pair of 0..255 x 0..255.

Bytes == 0..255

\* The state of a started node whose tables are gens, trks, frames, minimals,
\* at time t, before any packet.
StartedNode(gens, trks, frames, minimals, stats, t) ==
    /\ nodeState = "Started"
    /\ observer = TRUE
    /\ rtcp_sr_generators = gens
    /\ tracks = trks
    /\ rtp_frame_jitter_buffers = frames
    /\ rtp_minimal_jitter_buffers = minimals
    /\ receive_statistics = stats
    /\ last_sent_rtp_packet = NULL
    /\ last_sent_rtcp_packet = NULL
    /\ now = t
    /\ lastCall = [NoCall EXCEPT !.from = "Started"]
    /\ state_lock = [shared |-> {}, exclusive |-> {}]
    /\ hist = NoHist

InitClassify ==
    /\ StartedNode(EmptyMap, Put(EmptyMap, 96, "H264_RTP_RFC_6184"), {96}, {},
                   EmptyMap, 0)
    /\ pc = << "arrived" >>
    /\ \E b0, b1 \in Bytes, more \in {0, 8} :
          targ = << Datagram(RTCP_HEADER_SIZE + more, b0, b1, 1000, TRUE,
                             << Info("RR", 1000) >>) >>

\* The datagram that arrived is delivered to the node.
Deliver ==
    /\ pc[1] = "arrived"
    /\ OnDataReceivedFromNextNode(targ[1], Env(FALSE, FALSE, FALSE, TRUE))
    /\ pc' = << "delivered" >>
    /\ UNCHANGED << now, state_lock, targ >>

NextClassify == Deliver

SpecClassify == InitClassify /\ [][NextClassify]_vars

\* C7: a datagram of at least RTCP_HEADER_SIZE bytes received while Started
\* goes to RTCP handling iff byte0 is in [128,191] and byte1 in [192,223], to
\* RTP handling iff byte0 is in [128,191] and byte1 is not in [192,223], and
\* is rejected (failure, no handler, no effect) iff byte0 is outside
\* [128,191].
C7_Classification ==
    pc[1] = "delivered" =>
        LET b0 == lastCall.arg.data.first_byte
            b1 == lastCall.arg.data.second_byte
            band == b0 >= 128 /\ b0 <= 191
            ctl == b1 >= 192 /\ b1 <= 223
            isRtcp == /\ Len(lastCall.up) = 1
                      /\ lastCall.up[1].cb = "OnRtcpReceived"
                      /\ lastCall.ret = TRUE
                      /\ receive_statistics = EmptyMap
            isRtp == /\ lastCall.handler = "rtp"
                     /\ \A i \in 1..Len(lastCall.up) : lastCall.up[i].cb = "OnRtpFrameReceived"
                     /\ (b1 % 128 = 96) = (1000 \in DOMAIN receive_statistics)
                     /\ (b1 % 128 = 96) = lastCall.ret
            isRejected == /\ lastCall.handler = "reject"
                          /\ lastCall.ret = FALSE
                          /\ lastCall.up = << >>
                          /\ lastCall.jb = "none"
                          /\ receive_statistics = EmptyMap
        IN /\ isRtcp <=> (band /\ ctl)
           /\ isRtp <=> (band /\ ~ctl)
           /\ isRejected <=> ~band

\* C7 witness: the datagram (191, 223) was handled as RTCP.
C7_Witness ==
    /\ pc[1] = "delivered"
    /\ lastCall.arg.data.first_byte = 191
    /\ lastCall.arg.data.second_byte = 223
    /\ lastCall.handler = "rtcp"
    /\ Len(lastCall.up) = 1

----------------------------------------------------------------------------
\* SpecFir: a started node that has received packets from both SSRCs is asked
\* for FIRs until the sequence number has wrapped.

InitFir ==
    /\ StartedNode(EmptyMap, Put(EmptyMap, 96, "H264_RTP_RFC_6184"), {96}, {},
                   [ssrc \in Ssrcs |-> AddReceivedRtpPacket(NewRtpReceiveStatistics(96, ssrc))],
                   0)
    /\ pc = << >>
    /\ targ = << >>

NextFir ==
    \/ \E ok \in BOOLEAN :
          /\ receive_statistics[1000].fir_requests < MaxFirWrap
          /\ SendFir(1000, ok)
          /\ Caller
    \/ \E ok \in BOOLEAN :
          /\ receive_statistics[2000].fir_requests < MaxFir
          /\ SendFir(2000, ok)
          /\ Caller
    \/ Stop /\ Caller

SpecFir == InitFir /\ [][NextFir]_vars

\* C8: the k-th FIR built for a media SSRC carries (k-1) mod 256; each FIR's
\* number is one more than the previous one's for that SSRC, 255 being
\* followed by 0, and never equal to it.
C8_FirSequence ==
    /\ [](\A ssrc \in Ssrcs :
            hist.fir[ssrc].count > 0 =>
                hist.fir[ssrc].last = (hist.fir[ssrc].count - 1) % 256)
    /\ [][ (Called("SendFir") /\ Len(lastCall'.down) = 1) =>
             LET ssrc == lastCall'.arg.media_ssrc
                 seq == lastCall'.down[1].packet.seq
                 prev == hist.fir[ssrc].last
             IN /\ lastCall'.down[1].packet.media_ssrc = ssrc
                /\ hist'.fir[ssrc].count = hist.fir[ssrc].count + 1
                /\ prev # -1 =>
                     /\ seq = IF prev = 255 THEN 0 ELSE prev + 1
                     /\ seq # prev
                /\ \A other \in Ssrcs \ {ssrc} : hist'.fir[other] = hist.fir[other] ]_vars

\* C8 witness: the 257th FIR for SSRC 1000 was sent and carries 0 again.
C8_Witness ==
    /\ hist.fir[1000].count = 257
    /\ lastCall.op = "SendFir"
    /\ lastCall.arg.media_ssrc = 1000
    /\ lastCall.ret = TRUE
    /\ lastCall.down[1].packet.seq = 0

----------------------------------------------------------------------------
\* SpecE2E: the end-to-end scenario.  Payload type 96 is registered with an
\* SSRC/clock-rate pair and an H264 track, the node is started, and after a
\* start-up delay 20 RTP packets are sent 20 ms apart whose RTP timestamps
\* span 2 seconds at the clock rate.  pc[1] is the position in the scenario
\* and targ[1] the number of packets sent.

E2EPackets == 20
E2EPacketGapMs == 20
E2EDelays ==
    { i * E2EPacketGapMs : i \in 0..MaxDelaySteps } \cup {4980, 5000, 9990, 10000, 12000}
\* RTP timestamp of the k-th packet: 2 s of the clock rate over 20 packets.
E2ETimestamp(k) == (k - 1) * ((2 * CodecRate) \div E2EPackets)

E2EInit ==
    /\ nodeState = "Created"
    /\ observer = TRUE
    /\ rtcp_sr_generators = EmptyMap
    /\ tracks = EmptyMap
    /\ rtp_frame_jitter_buffers = {}
    /\ rtp_minimal_jitter_buffers = {}
    /\ receive_statistics = EmptyMap
    /\ last_sent_rtp_packet = NULL
    /\ last_sent_rtcp_packet = NULL
    /\ now = SrCreatedAt
    /\ lastCall = NoCall
    /\ state_lock = [shared |-> {}, exclusive |-> {}]
    /\ pc = << "created" >>
    /\ targ = << 0 >>
    /\ hist = NoHist

E2EStep(from, to) == pc[1] = from /\ pc' = << to >>

E2ENext ==
    \/ E2EStep("created", "ready") /\ NodeReady /\ UNCHANGED << now, state_lock, targ >>
    \/ /\ E2EStep("ready", "sr_registered")
       /\ AddRtcpSRGenerator(96, SsrcOf(96), CodecRate)
       /\ UNCHANGED << now, state_lock, targ >>
    \/ /\ E2EStep("sr_registered", "registered")
       /\ AddRtpReceiver(96, "H264_RTP_RFC_6184")
       /\ UNCHANGED << now, state_lock, targ >>
    \/ E2EStep("registered", "started") /\ Start /\ UNCHANGED << now, state_lock, targ >>
    \/ \E d \in E2EDelays :
          /\ E2EStep("started", "sending")
          /\ now' = now + d
          /\ UNCHANGED << nodeVars, lastCall, hist, state_lock, targ >>
    \/ \E sr_ok, rtp_ok \in BOOLEAN :
          /\ E2EStep("sending", IF targ[1] + 1 = E2EPackets THEN "done" ELSE "waiting")
          /\ SendRtpPacket(RtpPacket(96, 100, E2ETimestamp(targ[1] + 1)), sr_ok, rtp_ok)
          /\ targ' = << targ[1] + 1 >>
          /\ UNCHANGED << now, state_lock >>
    \/ /\ E2EStep("waiting", "sending")
       /\ now' = now + E2EPacketGapMs
       /\ UNCHANGED << nodeVars, lastCall, hist, state_lock, targ >>

SpecE2E == E2EInit /\ [][E2ENext]_vars

\* Delay between the generator's creation and the first packet of the run.
E2EDelay == now - (targ[1] - 1) * E2EPacketGapMs - rtcp_sr_generators[96].created_time

\* C9 (as claimed): when the 20 packets have been sent, exactly 4 SRs were
\* emitted, each with packet count 5 and with a strictly larger RTP
\* timestamp than the one before.
C9_FourReports ==
    pc[1] = "done" =>
        /\ hist.count = 4
        /\ \A i \in 1..Len(hist.srs) : hist.srs[i].sr.packet_count = 5
        /\ Len(hist.srs) = 2 /\ hist.srs[1].sr.timestamp < hist.srs[2].sr.timestamp

\* C9 (amended): when the 20 packets, sent 20 ms apart, have been sent, at
\* most one SR was emitted: none when the first packet was sent no later
\* than 120 ms after the generator's creation (the last one is then sent at
\* most 500 ms after it), otherwise exactly one, triggered by the first
\* packet sent more than 500 ms after the creation and counting the packets
\* sent up to and including it.
C9_AtMostOneReport ==
    pc[1] = "done" =>
        /\ targ[1] = 20
        /\ hist.count = IF E2EDelay <= 120 THEN 0 ELSE 1
        /\ hist.count = 1 =>
             LET sr == hist.srs[1]
                 T == rtcp_sr_generators[96].created_time
                 k == sr.sr.packet_count
             IN /\ Len(hist.srs) = 1
                /\ sr.at - T > 500
                /\ sr.at = T + E2EDelay + (k - 1) * 20
                /\ k > 1 => sr.at - 20 - T <= 500
                /\ sr.sr.timestamp = E2ETimestamp(k)
                /\ sr.sr.octet_count = 100 * k

\* C9 witness: the scenario has run with a start-up delay of 200 ms and the
\* one SR was triggered by the 17th packet.
C9_Witness ==
    /\ pc[1] = "done"
    /\ E2EDelay = 200
    /\ hist.count = 1
    /\ hist.srs[1].sr.packet_count = 17

----------------------------------------------------------------------------
\* SpecConc: the node called from several threads.  A call is split where
\* another thread can interleave: taking _state_lock, the state check, the
\* access to a registration table (which takes time: between its begin and
\* its end the table is mid-mutation or mid-lookup) and the release.
\* std::shared_lock takes the lock shared, std::lock_guard exclusive.
\* Start and Stop change the state under the exclusive lock, so they run in
\* one step.

Threads == {1, 2}
ConcFormats == {"H264_RTP_RFC_6184", "OPUS_RTP_RFC_7587"}

\* std::shared_lock<std::shared_mutex> lock(_state_lock)
CanLockShared == state_lock.exclusive = {}
LockShared(t) == [state_lock EXCEPT !.shared = @ \cup {t}]
UnlockShared(t) == [state_lock EXCEPT !.shared = @ \ {t}]
\* An exclusive lock that does not wait for the shared holders.
CanLockExclusive_noWait == state_lock.exclusive = {}

\* std::lock_guard<std::shared_mutex> lock(_state_lock)
CanLockExclusive == state_lock.exclusive = {} /\ state_lock.shared = {}

\* The table a thread is in the middle of writing / looking up.
Writing(t) ==
    IF pc[t] = "sr_writing" THEN {"rtcp_sr_generators"}
    ELSE IF pc[t] = "rx_writing" THEN {"tracks"}
    ELSE {}
Reading(t) ==
    IF pc[t] = "tx_reading" THEN {"rtcp_sr_generators"}
    ELSE IF pc[t] = "in_reading" THEN {"tracks"}
    ELSE {}
\* The threads whose table access overlaps an access to table by thread t.
Racing(t, table, write) ==
    { u \in Threads \ {t} : table \in Writing(u) \/ (write /\ table \in Reading(u)) }

InitConc ==
    /\ nodeState = "Ready"
    /\ observer = TRUE
    /\ rtcp_sr_generators = EmptyMap
    /\ tracks = EmptyMap
    /\ rtp_frame_jitter_buffers = {}
    /\ rtp_minimal_jitter_buffers = {}
    /\ receive_statistics = EmptyMap
    /\ last_sent_rtp_packet = NULL
    /\ last_sent_rtcp_packet = NULL
    /\ now = 0
    /\ lastCall = [NoCall EXCEPT !.from = "Ready"]
    /\ state_lock = [shared |-> {}, exclusive |-> {}]
    /\ pc = [t \in Threads |-> "idle"]
    /\ targ = [t \in Threads |-> [none |-> TRUE]]
    /\ hist = NoHist

\* Thread t enters a call that takes the lock shared.
Enter(t, first, arg) ==
    /\ pc[t] = "idle"
    /\ CanLockShared
    /\ state_lock' = LockShared(t)
    /\ pc' = [pc EXCEPT ![t] = first]
    /\ targ' = [targ EXCEPT ![t] = arg]
    /\ UNCHANGED << nodeVars, now, lastCall, hist >>

\* Thread t leaves its call.
Leave(t) ==
    /\ state_lock' = UnlockShared(t)
    /\ pc' = [pc EXCEPT ![t] = "idle"]
    /\ targ' = [targ EXCEPT ![t] = [none |-> TRUE]]

\* Thread t begins to access a table; every overlapping access is a data race.
BeginAccess(t, at, to, table, write) ==
    /\ pc[t] = at
    /\ pc' = [pc EXCEPT ![t] = to]
    /\ targ' = [u \in Threads |->
                  IF u \in Racing(t, table, write) \/ (u = t /\ Racing(t, table, write) # {})
                  THEN [targ[u] EXCEPT !.raced = TRUE]
                  ELSE targ[u]]
    /\ UNCHANGED << nodeVars, now, lastCall, hist, state_lock >>

\* RtpRtcp::AddRtcpSRGenerator, thread t
ConcAddRtcpSRGenerator(t) ==
    \/ Enter(t, "sr_check", [payload_type |-> 96, raced |-> FALSE])
    \/ /\ pc[t] = "sr_check"
       /\ IF CanRegister(nodeState)
          THEN /\ pc' = [pc EXCEPT ![t] = "sr_write"]
               /\ UNCHANGED << nodeVars, now, lastCall, hist, state_lock, targ >>
          ELSE /\ AddRtcpSRGenerator(96, SsrcOf(96), CodecRate)
               /\ Leave(t)
               /\ UNCHANGED now
    \/ BeginAccess(t, "sr_write", "sr_writing", "rtcp_sr_generators", TRUE)
    \/ /\ pc[t] = "sr_writing"
       /\ \/ AddRtcpSRGenerator(96, SsrcOf(96), CodecRate)
          \/ /\ targ[t].raced      \* a racing write may be lost
             /\ lastCall' = Call("AddRtcpSRGenerator", [payload_type |-> 96],
                                 TRUE, << >>, << >>, "none")
             /\ UNCHANGED << nodeVars, hist >>
       /\ Leave(t)
       /\ UNCHANGED now

\* RtpRtcp::AddRtpReceiver, thread t
ConcAddRtpReceiver(t) ==
    \/ \E f \in ConcFormats :
          Enter(t, "rx_check", [payload_type |-> 96, track |-> f, raced |-> FALSE])
    \/ /\ pc[t] = "rx_check"
       /\ IF CanRegister(nodeState)
          THEN /\ pc' = [pc EXCEPT ![t] = "rx_write"]
               /\ UNCHANGED << nodeVars, now, lastCall, hist, state_lock, targ >>
          ELSE /\ AddRtpReceiver(96, targ[t].track)
               /\ Leave(t)
               /\ UNCHANGED now
    \/ BeginAccess(t, "rx_write", "rx_writing", "tracks", TRUE)
    \/ /\ pc[t] = "rx_writing"
       /\ \/ AddRtpReceiver(96, targ[t].track)
          \/ /\ targ[t].raced      \* a racing write may be lost
             /\ lastCall' = Call("AddRtpReceiver",
                                 [payload_type |-> 96, track |-> targ[t].track],
                                 TRUE, << >>, << >>, "none")
             /\ UNCHANGED << nodeVars, hist >>
       /\ Leave(t)
       /\ UNCHANGED now

\* RtpRtcp::SendRtpPacket, thread t
ConcSendRtpPacket(t) ==
    \/ Enter(t, "tx_check", [raced |-> FALSE])
    \/ /\ pc[t] = "tx_check"
       /\ IF IsStarted(nodeState)
          THEN /\ pc' = [pc EXCEPT ![t] = "tx_find"]
               /\ UNCHANGED << nodeVars, now, lastCall, hist, state_lock, targ >>
          ELSE /\ SendRtpPacket(RtpPacket(96, 100, 0), TRUE, TRUE)
               /\ Leave(t)
               /\ UNCHANGED now
    \/ BeginAccess(t, "tx_find", "tx_reading", "rtcp_sr_generators", FALSE)
    \/ /\ pc[t] = "tx_reading"
       /\ 96 \in DOMAIN rtcp_sr_generators =>
              rtcp_sr_generators[96].packet_count < MaxPackets
       /\ \E rtp_ok \in BOOLEAN : SendRtpPacket(RtpPacket(96, 100, 0), TRUE, rtp_ok)
       /\ Leave(t)
       /\ UNCHANGED now

\* RtpRtcp::OnDataReceivedFromNextNode, thread t; an RTCP datagram is handled
\* without a lookup in the registration tables.
ConcDatagrams ==
    { Datagram(12, 128, 96, 1000, TRUE, << >>),
      Datagram(8, 191, 200, 0, TRUE, << Info("SR", 1000) >>) }
ConcOnDataReceived(t) ==
    \/ \E data \in ConcDatagrams :
          Enter(t, "in_check", [data |-> data, raced |-> FALSE])
    \/ /\ pc[t] = "in_check"
       /\ IF IsStarted(nodeState) /\ Dispatch(targ[t].data) = "rtp"
          THEN /\ pc' = [pc EXCEPT ![t] = "in_find"]
               /\ UNCHANGED << nodeVars, now, lastCall, hist, state_lock, targ >>
          ELSE /\ WithinPackets
               /\ OnDataReceivedFromNextNode(targ[t].data, NoEnv)
               /\ Leave(t)
               /\ UNCHANGED now
    \/ BeginAccess(t, "in_find", "in_reading", "tracks", FALSE)
    \/ /\ pc[t] = "in_reading"
       /\ WithinPackets
       /\ \E a \in BOOLEAN :
             OnDataReceivedFromNextNode(targ[t].data, Env(FALSE, FALSE, FALSE, a))
       /\ Leave(t)
       /\ UNCHANGED now

\* ov::Node::Start and RtpRtcp::Stop, thread t
ConcStart(t) ==
    pc[t] = "idle" /\ CanLockExclusive /\ Start /\ UNCHANGED << now, threadVars >>
ConcStop(t) ==
    pc[t] = "idle" /\ CanLockExclusive /\ Stop /\ UNCHANGED << now, threadVars >>

NextConc ==
    \E t \in Threads :
        \/ ConcAddRtcpSRGenerator(t)
        \/ ConcAddRtpReceiver(t)
        \/ ConcSendRtpPacket(t)
        \/ ConcOnDataReceived(t)
        \/ ConcStart(t)
        \/ ConcStop(t)

SpecConc == InitConc /\ [][NextConc]_vars

\* C4 (as claimed): in every interleaving no two registration calls are
\* mutating the same registration table at the same time, and no hot-path
\* call is looking up a table that a registration call is mutating.
C4_NoConcurrentTableMutation ==
    \A t, u \in Threads :
        t # u => /\ Writing(t) \cap Writing(u) = {}
                 /\ Writing(t) \cap Reading(u) = {}

----------------------------------------------------------------------------
\* SpecSend: a started node with an SR generator for payload type 96 and
\* none for 97; packets of both payload types are sent while the clock moves
\* on, and each of the two downward sends may fail.

SendInstants == { SrCreatedAt + d : d \in {400, 501, 1002, 1400} }

InitSend == InitSR

NextSend ==
    \/ \E t \in SendInstants : t > now /\ Tick(t - now)
    \/ \E pt \in PayloadTypes, sr_ok, rtp_ok \in BOOLEAN :
          /\ rtcp_sr_generators[96].packet_count < MaxSrPackets
          /\ SendRtpPacket(RtpPacket(pt, 100, TimestampAt(now)), sr_ok, rtp_ok)
          /\ Caller

SpecSend == InitSend /\ [][NextSend]_vars

\* C11: in a SendRtpPacket call made while Started, a report that the
\* generator of the packet's payload type builds during the call is forwarded
\* downward before the RTP packet; the RTP packet is forwarded whether or not
\* forwarding the report succeeded, and the call returns the result of
\* forwarding the RTP packet.  Without a generator for the payload type only
\* the RTP packet is forwarded.
C11_ReportBeforePacket ==
    [][ (Called("SendRtpPacket") /\ nodeState = "Started") =>
          LET packet == lastCall'.arg.rtp_packet
              pt == packet.payload_type
              down == lastCall'.down
              rtp == down[Len(down)]
              built == /\ pt \in DOMAIN rtcp_sr_generators
                       /\ rtcp_sr_generators'[pt].rtcp_generated_count
                              # rtcp_sr_generators[pt].rtcp_generated_count
          IN /\ Len(down) = IF built THEN 2 ELSE 1
             /\ rtp.node = "Rtp"
             /\ rtp.packet = packet
             /\ lastCall'.ret = rtp.ok
             /\ last_sent_rtp_packet' = packet
             /\ built => /\ down[1].node = "Rtcp"
                         /\ down[1].packet.type = "SR"
                         /\ down[1].packet.timestamp = packet.timestamp
                         /\ last_sent_rtcp_packet' = down[1].packet
             /\ ~built => last_sent_rtcp_packet' = last_sent_rtcp_packet ]_vars

\* C11 witness: a call forwarded a Sender Report, which failed, and then the
\* RTP packet, which succeeded, and returned success.
C11_Witness ==
    /\ lastCall.op = "SendRtpPacket"
    /\ Len(lastCall.down) = 2
    /\ lastCall.down[1].packet.type = "SR"
    /\ lastCall.down[1].ok = FALSE
    /\ lastCall.down[2].ok = TRUE
    /\ lastCall.ret = TRUE

----------------------------------------------------------------------------
\* Claims about the inbound path and the tables, checked under Spec.

\* C12 (as claimed): every payload type in the track table has exactly one
\* jitter buffer, a frame one or a minimal one, and its kind is the one of
\* the format class of the track stored for that payload type.
C12_OneJitterBufferPerTrack ==
    \A pt \in DOMAIN tracks :
        /\ (pt \in rtp_frame_jitter_buffers) # (pt \in rtp_minimal_jitter_buffers)
        /\ (pt \in rtp_frame_jitter_buffers) <=> (tracks[pt] \in FrameFormats)
        /\ (pt \in rtp_minimal_jitter_buffers) <=> (tracks[pt] \in MinimalFormats)

----------------------------------------------------------------------------
\* SpecInbound: a started node that has a frame track for payload types 0
\* and 96, a track of an unsupported format for 97 (stored by a registration
\* that failed, so without jitter buffer) and a minimal track for 98.  It is
\* handed datagrams of every kind, among them RTP datagrams shorter than the
\* 12-byte fixed RTP header, which RtpPacket cannot parse (parse_ok FALSE);
\* the payload type and SSRC such a packet object reports are either read
\* from the bytes present or left at 0.  FIRs are requested in between.

InTracks ==
    Put(Put(Put(Put(EmptyMap, 0, "H264_RTP_RFC_6184"), 96, "H264_RTP_RFC_6184"),
            97, "Unknown"), 98, "OPUS_RTP_RFC_7587")
InRtpDatagrams ==
    { Datagram(12, 128, b1, 1000, TRUE, << >>) : b1 \in {96, 97, 98, 99} }
InUnparsedRtpDatagrams ==
    { Datagram(8, 128, b1, s, FALSE, << >>) : b1 \in {0, 96}, s \in {0, 1000} }
InRtcpDatagrams ==
    { Datagram(8, 191, 200, 0, FALSE, << Info("SR", 1000) >>),
      Datagram(8, 191, 200, 0, TRUE, << Info("SR", 1000) >>),
      Datagram(8, 191, 201, 0, TRUE, << Info("RR", 1000), Info("SR", 2000),
                                        Info("SR", 1000), Info("FIR", 1000) >>) }
InBadDatagrams ==
    { Datagram(n, 128, 96, 1000, TRUE, << >>) : n \in {0, 1, 3} } \cup
    { Datagram(12, b0, 96, 1000, TRUE, << >>) : b0 \in {127, 192} }

InitInbound ==
    /\ StartedNode(EmptyMap, InTracks, {0, 96}, {98}, EmptyMap, 0)
    /\ pc = << >>
    /\ targ = << >>

NextInbound ==
    \/ \E data \in InRtpDatagrams \cup InUnparsedRtpDatagrams, e \in RtpEnvs :
          WithinPackets /\ OnDataReceivedFromNextNode(data, e) /\ Caller
    \/ \E data \in InRtcpDatagrams \cup InBadDatagrams :
          WithinPackets /\ OnDataReceivedFromNextNode(data, NoEnv) /\ Caller
    \/ \E ssrc \in Ssrcs, ok \in BOOLEAN :
          /\ ssrc \in DOMAIN receive_statistics =>
                 receive_statistics[ssrc].fir_requests < MaxFir
          /\ SendFir(ssrc, ok)
          /\ Caller

SpecInbound == InitInbound /\ [][NextInbound]_vars

\* The datagram of the call just made.
Arrived == lastCall'.arg.data

\* A datagram that is too short, outside the RTP/RTCP band, or that its
\* parser (RtpPacket, RtcpReceiver::ParseCompoundPacket) rejects.
Malformed(data) ==
    \/ data.length < 4
    \/ data.first_byte < 128
    \/ data.first_byte > 191
    \/ ~data.parse_ok

\* C13 (as claimed): a malformed inbound datagram is dropped with a failure
\* result; no statistics entry is created or updated, nothing is inserted
\* into a jitter buffer and the observer is not called.
C13_MalformedDropped ==
    [][ (Called("OnDataReceivedFromNextNode") /\ Malformed(Arrived)) =>
          /\ lastCall'.ret = FALSE
          /\ receive_statistics' = receive_statistics
          /\ lastCall'.jb = "none"
          /\ lastCall'.up = << >> ]_vars

\* The payload type of an arrived datagram that was handled as RTP.
ArrivedAsRtp == lastCall'.handler = "rtp"
ArrivedPayloadType == PayloadTypeOf(Arrived)

\* C14 (as claimed): an RTP packet whose payload type has no track fails
\* without creating or updating a statistics entry; an RTP packet whose
\* payload type has a track but no jitter buffer fails; SendFir for an SSRC
\* without statistics entry fails, sends nothing downward and leaves the
\* last-sent RTCP slot unchanged.
C14_UnregisteredRouteFails ==
    /\ [][ (Called("OnDataReceivedFromNextNode") /\ ArrivedAsRtp) =>
             /\ ArrivedPayloadType \notin DOMAIN tracks =>
                    /\ lastCall'.ret = FALSE
                    /\ receive_statistics' = receive_statistics
             /\ ( /\ ArrivedPayloadType \in DOMAIN tracks
                  /\ ArrivedPayloadType \notin rtp_frame_jitter_buffers
                  /\ ArrivedPayloadType \notin rtp_minimal_jitter_buffers ) =>
                    lastCall'.ret = FALSE ]_vars
    /\ [][ ( /\ Called("SendFir")
             /\ lastCall'.arg.media_ssrc \notin DOMAIN receive_statistics ) =>
             /\ lastCall'.ret = FALSE
             /\ lastCall'.down = << >>
             /\ last_sent_rtcp_packet' = last_sent_rtcp_packet ]_vars

\* C15 (as claimed): a call whose Receiver Report or FIR failed to be
\* forwarded downward returns failure.
C15_SendFailureIsResult ==
    /\ [][ ( /\ Called("OnDataReceivedFromNextNode")
             /\ \E i \in 1..Len(lastCall'.down) :
                   /\ lastCall'.down[i].packet.type = "RR"
                   /\ ~lastCall'.down[i].ok ) =>
             lastCall'.ret = FALSE ]_vars
    /\ [][ ( /\ Called("SendFir")
             /\ \E i \in 1..Len(lastCall'.down) :
                   /\ lastCall'.down[i].packet.type = "FIR"
                   /\ ~lastCall'.down[i].ok ) =>
             lastCall'.ret = FALSE ]_vars

\* Number of Sender Reports from ssrc among the messages infos.
SenderReportsFrom(infos, ssrc) ==
    Cardinality({ i \in 1..Len(infos) : infos[i].type = "SR" /\ infos[i].ssrc = ssrc })

\* C18: when the compound packet of an RTCP datagram parses, every message
\* is delivered to the observer once, in arrival order, whatever its kind;
\* a Sender Report is also fed to the statistics entry of its sender SSRC if
\* that entry exists; no statistics entry is created or removed.
C18_RtcpDelivery ==
    [][ ( /\ Called("OnDataReceivedFromNextNode")
          /\ lastCall'.handler = "rtcp"
          /\ Arrived.parse_ok ) =>
          LET infos == Arrived.infos
              up == lastCall'.up
          IN /\ lastCall'.ret = TRUE
             /\ Len(up) = Len(infos)
             /\ \A i \in 1..Len(infos) :
                   /\ up[i].cb = "OnRtcpReceived"
                   /\ up[i].info = infos[i]
             /\ DOMAIN receive_statistics' = DOMAIN receive_statistics
             /\ \A s \in DOMAIN receive_statistics :
                   receive_statistics'[s] =
                       [receive_statistics[s] EXCEPT
                           !.sender_reports = @ + SenderReportsFrom(infos, s)] ]_vars

\* C18 witness: four messages (RR, SR of an unknown sender, SR of a known
\* sender, FIR) were delivered in order; the known sender's entry took its
\* Sender Report and no entry was made for the unknown sender.
C18_Witness ==
    /\ lastCall.op = "OnDataReceivedFromNextNode"
    /\ lastCall.handler = "rtcp"
    /\ Len(lastCall.up) = 4
    /\ lastCall.up[2].info = Info("SR", 2000)
    /\ lastCall.up[4].info = Info("FIR", 1000)
    /\ 1000 \in DOMAIN receive_statistics
    /\ receive_statistics[1000].sender_reports = 1
    /\ 2000 \notin DOMAIN receive_statistics

----------------------------------------------------------------------------
\* SpecStat: OnDataReceivedFromNextNode called from several threads with RTP
\* datagrams of payload type 96 that all carry SSRC 1000.  Every call holds
\* _state_lock shared, so the calls run side by side; a call is split at its
\* accesses to _receive_statistics: find, emplace, AddReceivedRtpPacket.
\* Each std::map operation is one step here (their overlap in time is a data
\* race on top of the interleavings modelled).  A thread's stat pointer is
\* either the entry in the table or, when its emplace found the key already
\* present, the object it made itself (targ[t].own).  targ[t].calls counts
\* the calls of thread t that returned success.

StatSsrc == 1000
StatIdle == [calls |-> 0, own |-> FALSE]

InitStat ==
    /\ StartedNode(EmptyMap, Put(EmptyMap, 96, "H264_RTP_RFC_6184"), {96}, {},
                   EmptyMap, 0)
    /\ pc = [t \in Threads |-> "idle"]
    /\ targ = [t \in Threads |-> StatIdle]

StatStep(t, from, to) == pc[t] = from /\ pc' = [pc EXCEPT ![t] = to]

\* Lock, state check, classification, RtpPacket, _tracks.find (l.175-242)
StatEnter(t) ==
    /\ StatStep(t, "idle", "st_find")
    /\ targ[t].calls < MaxPackets
    /\ CanLockShared /\ IsStarted(nodeState) /\ 96 \in DOMAIN tracks
    /\ state_lock' = LockShared(t)
    /\ UNCHANGED << nodeVars, now, lastCall, hist, targ >>

\* _receive_statistics.find(packet->Ssrc()) (l.245-246)
StatFind(t) ==
    /\ pc[t] = "st_find"
    /\ pc' = [pc EXCEPT ![t] = IF StatSsrc \in DOMAIN receive_statistics
                               THEN "st_record" ELSE "st_emplace"]
    /\ targ' = [targ EXCEPT ![t].own = FALSE]
    /\ UNCHANGED << nodeVars, now, lastCall, hist, state_lock >>

\* make_shared<RtpReceiveStatistics> and emplace (l.249-250): emplace inserts
\* nothing when the key is present, and stat stays the object just made.
StatEmplace(t) ==
    /\ StatStep(t, "st_emplace", "st_record")
    /\ IF StatSsrc \in DOMAIN receive_statistics
       THEN /\ targ' = [targ EXCEPT ![t].own = TRUE]
            /\ UNCHANGED receive_statistics
       ELSE /\ receive_statistics' =
                   Put(receive_statistics, StatSsrc, NewRtpReceiveStatistics(96, StatSsrc))
            /\ UNCHANGED targ
    /\ UNCHANGED << nodeState, observer, tableVars, last_sent_rtp_packet,
                    last_sent_rtcp_packet, now, lastCall, hist, state_lock >>

\* stat->AddReceivedRtpPacket(packet) (l.257)
StatRecord(t) ==
    /\ StatStep(t, "st_record", "st_rest")
    /\ receive_statistics' =
           IF targ[t].own THEN receive_statistics
           ELSE Put(receive_statistics, StatSsrc,
                    AddReceivedRtpPacket(receive_statistics[StatSsrc]))
    /\ UNCHANGED << nodeState, observer, tableVars, last_sent_rtp_packet,
                    last_sent_rtcp_packet, now, lastCall, hist, state_lock, targ >>

\* The rest of OnRtpReceived (l.259-360): no report due, the packet goes
\* into the frame jitter buffer, the call returns true.
StatFinish(t) ==
    /\ StatStep(t, "st_rest", "idle")
    /\ \E available \in BOOLEAN :
          lastCall' =
              [Call("OnDataReceivedFromNextNode",
                    [data |-> Datagram(12, 128, 96, StatSsrc, TRUE, << >>)], TRUE, << >>,
                    IF available /\ observer
                    THEN << [cb |-> "OnRtpFrameReceived", payload_type |-> 96,
                             ssrc |-> StatSsrc, live |-> observer] >>
                    ELSE << >>,
                    "frame") EXCEPT !.handler = "rtp"]
    /\ targ' = [targ EXCEPT ![t].calls = @ + 1]
    /\ state_lock' = UnlockShared(t)
    /\ UNCHANGED << nodeVars, now, hist >>

NextStat ==
    \E t \in Threads :
        \/ StatEnter(t)
        \/ StatFind(t)
        \/ StatEmplace(t)
        \/ StatRecord(t)
        \/ StatFinish(t)

SpecStat == InitStat /\ [][NextStat]_vars

\* Number of datagrams accepted so far, over all threads.
RECURSIVE SumCalls(_)
SumCalls(S) ==
    IF S = {} THEN 0
    ELSE LET t == CHOOSE x \in S : TRUE IN targ[t].calls + SumCalls(S \ {t})

\* C16 (as claimed): whenever no call is running, the table holds one entry
\* for the SSRC the accepted packets carried and that entry's received-packet
\* count is the number of packets accepted.
C16_OneEntryCountsAll ==
    ((\A t \in Threads : pc[t] = "idle") /\ SumCalls(Threads) > 0) =>
        /\ DOMAIN receive_statistics = {StatSsrc}
        /\ receive_statistics[StatSsrc].rtp_packets = SumCalls(Threads)

----------------------------------------------------------------------------
\* SpecGen: SendRtpPacket called from several threads for payload type 96.
\* Every call holds _state_lock shared, so the calls run side by side on the
\* one RtcpSRGenerator, which has no lock of its own; a call is split at its
\* accesses to the generator's members.  Each statement is one step here
\* (their overlap in time is a data race on top of the interleavings
\* modelled).  targ[t] holds the locals of thread t: whether it saw a report
\* available, the report it popped, and the number of calls it completed.

GenInstants == { SrCreatedAt + d : d \in {501, 1002} }
GenIdle == [calls |-> 0, saw |-> FALSE, popped |-> NULL]
GenPacket == RtpPacket(96, 100, 0)
InObserve == {"gen_count", "gen_check", "gen_build", "gen_reset"}

InitGen ==
    /\ StartedNode(Put(EmptyMap, 96, NewRtcpSRGenerator(SsrcOf(96), CodecRate, SrCreatedAt)),
                   EmptyMap, {}, {}, EmptyMap, SrCreatedAt)
    /\ pc = [t \in Threads |-> "idle"]
    /\ targ = [t \in Threads |-> GenIdle]

GenStep(t, from, to) == pc[t] = from /\ pc' = [pc EXCEPT ![t] = to]
GenOnly(g) ==
    /\ rtcp_sr_generators' = Put(rtcp_sr_generators, 96, g)
    /\ UNCHANGED << nodeState, observer, tracks, rtp_frame_jitter_buffers,
                    rtp_minimal_jitter_buffers, receive_statistics,
                    last_sent_rtp_packet, last_sent_rtcp_packet, now, lastCall,
                    state_lock >>

\* Lock, state check, _rtcp_sr_generators.find (l.76-87)
GenEnter(t) ==
    /\ GenStep(t, "idle", "gen_count")
    /\ targ[t].calls < MaxPackets
    /\ CanLockShared /\ IsStarted(nodeState) /\ 96 \in DOMAIN rtcp_sr_generators
    /\ state_lock' = LockShared(t)
    /\ targ' = [targ EXCEPT ![t].saw = FALSE, ![t].popped = NULL]
    /\ UNCHANGED << nodeVars, now, lastCall, hist >>

\* _packet_count ++; _octec_count += PayloadSize() (generator l.14-15)
GenCount(t) ==
    /\ GenStep(t, "gen_count", "gen_check")
    /\ GenOnly([rtcp_sr_generators[96] EXCEPT
                   !.packet_count = @ + 1,
                   !.octec_count = @ + GenPacket.payload_size])
    /\ hist' = [hist EXCEPT !.gen.observed = @ + 1,
                            !.gen.octets = @ + GenPacket.payload_size]
    /\ UNCHANGED targ

\* The if condition (generator l.20-21)
GenCheck(t) ==
    /\ pc[t] = "gen_check"
    /\ pc' = [pc EXCEPT ![t] =
                IF IsRtcpIntervalElapsed(
                       GetElapsedTimeMSFromCreated(rtcp_sr_generators[96], now),
                       GetElapsedTimeMSFromRtcpSRGenerated(rtcp_sr_generators[96], now))
                THEN "gen_build" ELSE "gen_avail"]
    /\ UNCHANGED << nodeVars, now, lastCall, hist, state_lock, targ >>

\* The report is built from the counters and stored (generator l.23-52)
GenBuild(t) ==
    LET g == rtcp_sr_generators[96] IN
    /\ GenStep(t, "gen_build", "gen_reset")
    /\ GenOnly([g EXCEPT !.rtcp_packet = BuildSenderReport(g, GenPacket)])
    /\ hist' = [hist EXCEPT !.gen.built = @ + 1,
                            !.gen.reported = @ + g.packet_count,
                            !.gen.reported_octets = @ + g.octec_count]
    /\ UNCHANGED targ

\* The counters are reset (generator l.55-58)
GenReset(t) ==
    /\ GenStep(t, "gen_reset", "gen_avail")
    /\ GenOnly([rtcp_sr_generators[96] EXCEPT
                   !.packet_count = 0, !.octec_count = 0,
                   !.last_generated_time = now,
                   !.rtcp_generated_count = @ + 1])
    /\ UNCHANGED << hist, targ >>

\* IsAvailableRtcpSRPacket (l.90)
GenAvailable(t) ==
    LET avail == IsAvailableRtcpSRPacket(rtcp_sr_generators[96]) IN
    /\ pc[t] = "gen_avail"
    /\ pc' = [pc EXCEPT ![t] = IF avail THEN "gen_pop" ELSE "gen_rtp"]
    /\ targ' = [targ EXCEPT ![t].saw = avail]
    /\ UNCHANGED << nodeVars, now, lastCall, hist, state_lock >>

\* PopRtcpSRPacket, _last_sent_rtcp_packet and the report's forward
\* (l.92-101).  When another thread has popped the report in between, the
\* pointer is null and rtcp_sr_packet->GetData() dereferences it: the
\* thread either dies there or goes on.
GenPop(t) ==
    LET sr == rtcp_sr_generators[96].rtcp_packet IN
    /\ pc[t] = "gen_pop"
    /\ rtcp_sr_generators' =
           Put(rtcp_sr_generators, 96, PopRtcpSRPacket(rtcp_sr_generators[96]))
    /\ last_sent_rtcp_packet' = sr
    /\ targ' = [targ EXCEPT ![t].popped = sr]
    /\ IF sr # NULL
       THEN /\ pc' = [pc EXCEPT ![t] = "gen_rtp"]
            /\ hist' = [hist EXCEPT
                          !.count = @ + 1,
                          !.srs = LastTwo(Append(@, [at |-> now, pt |-> 96, sr |-> sr,
                                                     seen |-> NoTally]))]
       ELSE /\ \E next \in {"crashed", "gen_rtp"} : pc' = [pc EXCEPT ![t] = next]
            /\ UNCHANGED hist
    /\ UNCHANGED << nodeState, observer, tracks, rtp_frame_jitter_buffers,
                    rtp_minimal_jitter_buffers, receive_statistics,
                    last_sent_rtp_packet, now, lastCall, state_lock >>

\* _last_sent_rtp_packet and the packet's forward (l.105-106)
GenRtp(t) ==
    /\ GenStep(t, "gen_rtp", "idle")
    /\ last_sent_rtp_packet' = GenPacket
    /\ \E rtp_ok \in BOOLEAN :
          lastCall' = Call("SendRtpPacket", [rtp_packet |-> GenPacket], rtp_ok,
                           (IF targ[t].popped # NULL
                            THEN << Sent("Rtcp", targ[t].popped, TRUE) >> ELSE << >>)
                               \o << Sent("Rtp", GenPacket, rtp_ok) >>,
                           << >>, "none")
    /\ targ' = [targ EXCEPT ![t].calls = @ + 1]
    /\ state_lock' = UnlockShared(t)
    /\ UNCHANGED << nodeState, observer, tableVars, receive_statistics,
                    last_sent_rtcp_packet, now, hist >>

NextGen ==
    \/ \E i \in GenInstants : i > now /\ Tick(i - now)
    \/ \E t \in Threads :
          \/ GenEnter(t)
          \/ GenCount(t)
          \/ GenCheck(t)
          \/ GenBuild(t)
          \/ GenReset(t)
          \/ GenAvailable(t)
          \/ GenPop(t)
          \/ GenRtp(t)

SpecGen == InitGen /\ [][NextGen]_vars

\* C17 (as claimed): whenever no thread is inside the generator's observe
\* call, the packet counts of the reports built so far plus the generator's
\* packet counter equal the number of packets observed, likewise for
\* octets, and no more reports were built than emission intervals (of more
\* than 500 ms each) have elapsed since the generator's creation.
C17_CountersResetAtomically ==
    (\A t \in Threads : pc[t] \notin InObserve) =>
        LET g == rtcp_sr_generators[96] IN
        /\ hist.gen.reported + g.packet_count = hist.gen.observed
        /\ hist.gen.reported_octets + g.octec_count = hist.gen.octets
        /\ hist.gen.built <= (now - g.created_time) \div 501

\* C19 (as claimed): a call that saw a report available popped a non-null
\* report, and whenever no call is running no report is pending and every
\* report built has been forwarded, once.
C19_ReportConsumedOnce ==
    /\ \A t \in Threads :
          (targ[t].saw /\ pc[t] \in {"gen_rtp", "crashed"}) => targ[t].popped # NULL
    /\ (\A t \in Threads : pc[t] = "idle") =>
          /\ ~IsAvailableRtcpSRPacket(rtcp_sr_generators[96])
          /\ hist.count = hist.gen.built

----------------------------------------------------------------------------
\* Claims about Stop and the inbound path, checked under SpecConc.

\* Thread t is inside an inbound call that has passed the Started check.
InboundRunning(t) == pc[t] \in {"in_find", "in_reading"}

\* C20: while an inbound call that passed the Started check is running, Stop
\* has not released the observer; every observer callback of an inbound
\* call uses a live observer reference; and no inbound call that begins
\* after Stop has returned calls the observer.
C20_StopExcludesInbound ==
    /\ [](\A t \in Threads :
             InboundRunning(t) => (observer = TRUE /\ nodeState = "Started"))
    /\ [][ \A t \in Threads :
             (pc[t] \in {"in_check", "in_reading"} /\ pc'[t] = "idle") =>
                 /\ \A i \in 1..Len(lastCall'.up) : lastCall'.up[i].live = TRUE
                 /\ lastCall'.up # << >> => (observer = TRUE /\ nodeState = "Started")
                 /\ nodeState = "Stopped" =>
                        (lastCall'.ret = FALSE /\ lastCall'.up = << >>) ]_vars

\* C20 witness: Stop has returned and an inbound RTCP datagram delivered
\* after it was refused without calling the observer, while another inbound
\* call has taken the lock.
C20_Witness ==
    /\ nodeState = "Stopped"
    /\ observer = FALSE
    /\ lastCall.op = "OnDataReceivedFromNextNode"
    /\ lastCall.from = "Stopped"
    /\ lastCall.arg.data.first_byte = 191
    /\ lastCall.ret = FALSE
    /\ lastCall.up = << >>
    /\ \E t \in Threads : pc[t] = "in_check"

====
